---- MODULE Spec2Model ----
\* A model of libnspire's screenshot service (services/screenshot.c):
\* the acquisition routine nspire_screenshot and the run-length decoder
\* rle_decode it calls.  The transport (service_connect, data_write8,
\* data_read, data_scan, service_disconnect) and malloc are the environment:
\* each call either succeeds or fails, chosen nondeterministically.
EXTENDS Integers, Sequences, FiniteSets, TLC

VARIABLES
  pc,        \* position of nspire_screenshot ("idle" while only rle_decode is exercised)
  ret,       \* int ret
  maxdata,   \* packet_max_datasize(handle), the length of buffer[]
  first,     \* the first response packet the device will send (header fields as data_scan yields them)
  wire,      \* the payload packets the device will send after it, in order
  raw,       \* the raw pixels the device compressed (known only when the stream is built from them)
  nread,     \* number of payload packets data_read has delivered so far
  buffer,    \* uint8_t buffer[]: the packet last read
  size,      \* uint32_t size: declared size, counted down by the reassembly loop
  width,     \* uint16_t width
  height,    \* uint16_t height
  bpp,       \* uint8_t bpp (the decoder's parameter of the same name holds the same value)
  in_len,    \* size_t in_len
  out_len,   \* size_t out_len, as four 16-bit limbs, least significant first
  tmp,       \* the bytes of the malloc(size) block tmp points to
  tmp_st,    \* tmp: "null", "live" or "freed"
  tmp_ptr,   \* tmp_ptr - tmp
  img,       \* i->width, i->height, i->bpp
  i_st,      \* i: "uninit", "null", "live" or "freed"
  data,      \* i->data, the bytes the decoder writes
  ptr,       \* *ptr, the caller's output pointer
  ops,       \* the calls made on the environment so far, in order
  conn,      \* the handle's service connection: "none", "open" or "closed"
  oob,       \* TRUE once a memcpy has read or written outside its blocks
  rle_pc,    \* position of rle_decode: "off", "loop" or "returned"
  in_pos,    \* in - (initial in)
  in_size,   \* size_t in_size
  out_pos,   \* out - (initial out)
  out_size,  \* size_t out_size
  last       \* the branch rle_decode took in its last step

rle_vars == <<rle_pc, in_pos, in_size, out_pos, out_size, last>>
hdr_vars == <<size, width, height, bpp>>
env_vars == <<maxdata, first, wire, raw>>
vars == <<pc, ret, maxdata, first, wire, raw, nread, buffer, size, width, height, bpp,
          in_len, out_len, tmp, tmp_st, tmp_ptr, img, i_st, data, ptr, ops,
          conn, oob, rle_pc, in_pos, in_size, out_pos, out_size, last>>

\* ---------------------------------------------------------------- bounds
MaxData == 3       \* largest packet_max_datasize explored (smallest is 2)
MaxStream == 5     \* most payload bytes the device sends
MaxSize == 4       \* largest declared size in the first packet
MaxTrail == 4      \* most bytes the device sends after the scenario's stream
MaxIn == 5         \* longest input handed to rle_decode on its own
MaxOut == 5        \* largest out_size handed to rle_decode on its own
MaxRaw == 5        \* longest raw buffer of the round trip

\* ---------------------------------------------------------------- values
Min(a, b) == IF a < b THEN a ELSE b

\* A byte of a malloc'ed block that nothing has written yet.
Unwritten == -1
Fresh(n) == [k \in 1..n |-> Unwritten]

NSPIRE_ERR_SUCCESS == "NSPIRE_ERR_SUCCESS"
NSPIRE_ERR_NOMEM == "-NSPIRE_ERR_NOMEM"
NSPIRE_ERR_INVALPKT == "-NSPIRE_ERR_INVALPKT"
TransportErrors == {"-NSPIRE_ERR_TIMEOUT", "-NSPIRE_ERR_LIBUSB"}

\* The caller's *ptr before the call.
NoImage == "caller's value"

\* ---------------------------------------------------------------- C integers
\* Numbers too wide for TLC's integers are kept as sequences of four
\* 16-bit limbs, least significant first (a 64-bit size_t).
Limb == 2^16
LimbsOf(n) == <<n % Limb, (n \div Limb) % Limb, 0, 0>>
LimbsSmall(x) == x[3] = 0 /\ x[4] = 0 /\ x[2] < 2^15
LimbsVal(x) == x[2] * Limb + x[1]

\* x * m modulo 2^64, for a factor m <= 256.
LimbsMulSmall(x, m) ==
  LET p1 == x[1] * m
      p2 == x[2] * m + p1 \div Limb
      p3 == x[3] * m + p2 \div Limb
      p4 == x[4] * m + p3 \div Limb
  IN <<p1 % Limb, p2 % Limb, p3 % Limb, p4 % Limb>>

LimbsAdd(x, y) ==
  LET s1 == x[1] + y[1]
      s2 == x[2] + y[2] + s1 \div Limb
      s3 == x[3] + y[3] + s2 \div Limb
      s4 == x[4] + y[4] + s3 \div Limb
  IN <<s1 % Limb, s2 % Limb, s3 % Limb, s4 % Limb>>

\* x * m modulo 2^64, for a factor m < 2^16.
LimbsMul(x, m) ==
  LimbsAdd(LimbsMulSmall(LimbsMulSmall(x, m \div 256), 256), LimbsMulSmall(x, m % 256))

\* floor(x / 8)
LimbsDiv8(x) ==
  LET q4 == x[4] \div 8
      r4 == x[4] % 8
      q3 == (r4 * Limb + x[3]) \div 8
      r3 == (r4 * Limb + x[3]) % 8
      q2 == (r3 * Limb + x[2]) \div 8
      r2 == (r3 * Limb + x[2]) % 8
      q1 == (r2 * Limb + x[1]) \div 8
  IN <<q1, q2, q3, q4>>

\* The 32-bit two's complement pattern of an int, and the int of a pattern.
IntBits(a) == IF a >= 0 THEN LimbsOf(a)
              ELSE <<a % Limb, ((a \div Limb) % Limb), 0, 0>>
BitsInt(x) == IF x[2] >= 2^15 THEN (x[2] - Limb) * Limb + x[1]
              ELSE x[2] * Limb + x[1]

\* int * int where the second factor is a promoted uint16_t or uint8_t: the
\* product is kept to the 32 bits of an int.  A product beyond INT_MAX is
\* undefined in C; the two's complement wrap-around modelled here is what a
\* 32-bit imul yields, and an int can hold the exact product in no build.
IntMul(a, m) ==
  LET p == LimbsMul(IntBits(a), m) IN BitsInt(<<p[1], p[2], 0, 0>>)

\* int / 8: the quotients a build can produce.  The dividend is negative only
\* after the product has overflowed, which is undefined: a build that divides
\* truncates toward zero (gcc -O0, -O1), a build that takes the product of
\* unsigned operands to be non-negative shifts right by 3 and so rounds down
\* (gcc -O2, -O3, -Os).  The two agree on multiples of 8.
IntDiv8(a) == IF a >= 0 THEN {a \div 8} ELSE {(a + 7) \div 8, a \div 8}

\* int converted to size_t (64 bits).
SizeOfInt(a) ==
  IF a >= 0 THEN LimbsOf(a)
  ELSE <<a % Limb, (a \div Limb) % Limb, Limb - 1, Limb - 1>>

\* out_len = (width * height * bpp) / 8: the values a build can give it.
OutLen(w, h, b) == {SizeOfInt(q) : q \in IntDiv8(IntMul(IntMul(w, h), b))}

\* ---------------------------------------------------------------- rle_decode
\* const size_t rle_size = (bpp * 2) / 8;
rle_size(b) == (b * 2) \div 8

\* (int8_t)*in
Int8Bug(byte) == byte
Int8(byte) == IF byte >= 128 THEN byte - 256 ELSE byte

\* memcpy(dst + dpos, src + spos, n): the bytes of dst afterwards (a byte read
\* from outside src has no known value), and whether the call stays inside
\* both blocks.
At(src, k) == IF k \in DOMAIN src THEN src[k] ELSE Unwritten
Memcpy(dst, dpos, src, spos, n) ==
  [k \in 1..Len(dst) |->
     IF k > dpos /\ k <= dpos + n THEN At(src, spos + (k - dpos)) ELSE dst[k]]
InBounds(dst, dpos, src, spos, n) ==
  n >= 0 /\ dpos + n <= Len(dst) /\ spos + n <= Len(src)

\* free(p) on a pointer in state st.
FreeOf(st) == IF st = "live" THEN "freed" ELSE "bad free"

\* The control byte the loop is about to read.
Control == Int8(tmp[in_pos + 1])

RleLoopCondBug == in_size > 2 /\ out_size # 0
\* while (in_size > 1 && out_size)
RleLoopCond == in_size > 1 /\ out_size # 0

\* len = (-len + 1) * rle_size, clamped to out_size and then to in_size
\* (in_size already counts the control byte as consumed).
LiteralLenBug(code, unit, osz, isz) == Min((-code + 1) * unit, osz)
LiteralLenShort(code, unit, osz, isz) == Min(Min((-code) * unit, osz), isz)
LiteralLen(code, unit, osz, isz) == Min(Min((-code + 1) * unit, osz), isz)

\* for (i = 0; i < len + 1; ++i) { if (out_size < rle_size) break; ... }:
\* the number of memcpy calls made from iteration i on.
RECURSIVE RepeatCopiesBug(_, _, _, _)
RepeatCopiesBug(i, code, unit, osz) ==
  IF i < code /\ ~(osz < unit)
  THEN 1 + RepeatCopiesBug(i + 1, code, unit, osz - unit)
  ELSE 0
RepeatCopiesNoBreak(i, code, unit, osz) == code + 1 - i
RECURSIVE RepeatCopies(_, _, _, _)
RepeatCopies(i, code, unit, osz) ==
  IF i < code + 1 /\ ~(osz < unit)
  THEN 1 + RepeatCopies(i + 1, code, unit, osz - unit)
  ELSE 0

\* The output after c copies of the unit bytes at src + spos, written from dpos on.
RECURSIVE RepeatWrite(_, _, _, _, _, _)
RepeatWrite(dst, dpos, src, spos, unit, c) ==
  IF c = 0 THEN dst
  ELSE RepeatWrite(Memcpy(dst, dpos, src, spos, unit), dpos + unit, src, spos, unit, c - 1)

\* One pass of the loop body with a negative control byte (lines 32-44).
RleLiteral ==
  /\ rle_pc = "loop" /\ RleLoopCond /\ Control < 0
  /\ LET n == LiteralLen(Control, rle_size(bpp), out_size, in_size - 1) IN
       /\ data' = Memcpy(data, out_pos, tmp, in_pos + 1, n)
       /\ oob' = (oob \/ ~InBounds(data, out_pos, tmp, in_pos + 1, n))
       /\ in_size' = in_size - 1 - n
       /\ in_pos' = in_pos + 1 + n
       /\ out_size' = out_size - n
       /\ out_pos' = out_pos + n
  /\ last' = "literal"
  /\ UNCHANGED <<conn, rle_pc, pc, ret, env_vars, nread, buffer, hdr_vars, in_len, out_len,
                 tmp, tmp_st, tmp_ptr, img, i_st, ptr, ops>>

\* One pass of the loop body with a control byte >= 0 and the unit present (lines 32-33, 45-59).
RleRepeat ==
  /\ rle_pc = "loop" /\ RleLoopCond /\ Control >= 0
  /\ ~(in_size - 1 < rle_size(bpp))
  /\ LET unit == rle_size(bpp)
         c == RepeatCopies(0, Control, unit, out_size) IN
       /\ data' = RepeatWrite(data, out_pos, tmp, in_pos + 1, unit, c)
       /\ oob' = (oob \/ (c > 0 /\ ~InBounds(data, out_pos + (c - 1) * unit,
                                                tmp, in_pos + 1, unit)))
       /\ out_size' = out_size - c * unit
       /\ out_pos' = out_pos + c * unit
       /\ in_size' = in_size - 1 - unit
       /\ in_pos' = in_pos + 1 + unit
  /\ last' = "repeat"
  /\ UNCHANGED <<conn, rle_pc, pc, ret, env_vars, nread, buffer, hdr_vars, in_len, out_len,
                 tmp, tmp_st, tmp_ptr, img, i_st, ptr, ops>>

\* A control byte >= 0 with fewer than rle_size bytes after it: return (lines 32-33, 46-47).
RleTruncatedBug ==
  /\ rle_pc = "loop" /\ RleLoopCond /\ Control >= 0
  /\ in_size - 1 < rle_size(bpp)
  /\ data' = Memcpy(data, out_pos, tmp, in_pos + 1, Min(in_size - 1, out_size))
  /\ in_size' = in_size - 1
  /\ in_pos' = in_pos + 1
  /\ rle_pc' = "returned"
  /\ last' = "truncated"
  /\ UNCHANGED <<conn, oob, out_pos, out_size, pc, ret, env_vars, nread, buffer, hdr_vars, in_len,
                 out_len, tmp, tmp_st, tmp_ptr, img, i_st, ptr, ops>>
RleTruncated ==
  /\ rle_pc = "loop" /\ RleLoopCond /\ Control >= 0
  /\ in_size - 1 < rle_size(bpp)
  /\ in_size' = in_size - 1
  /\ in_pos' = in_pos + 1
  /\ rle_pc' = "returned"
  /\ last' = "truncated"
  /\ UNCHANGED <<conn, oob, data, out_pos, out_size, pc, ret, env_vars, nread, buffer, hdr_vars,
                 in_len, out_len, tmp, tmp_st, tmp_ptr, img, i_st, ptr, ops>>

\* The loop condition is false: the function returns (lines 31, 60-61).
RleExit ==
  /\ rle_pc = "loop" /\ ~RleLoopCond
  /\ rle_pc' = "returned"
  /\ last' = "exit"
  /\ UNCHANGED <<conn, oob, data, in_pos, in_size, out_pos, out_size, pc, ret, env_vars, nread,
                 buffer, hdr_vars, in_len, out_len, tmp, tmp_st, tmp_ptr, img, i_st, ptr, ops>>


\* ---------------------------------------------------------------- nspire_screenshot
ConnectBug ==
  /\ pc = "connect"
  /\ ops' = Append(ops, "service_connect")
  /\ \/ ret' = NSPIRE_ERR_SUCCESS /\ conn' = "open" /\ pc' = "write"
     \/ \E e \in TransportErrors : ret' = e /\ conn' = conn /\ pc' = "end"
  /\ UNCHANGED <<oob, env_vars, nread, buffer, hdr_vars, in_len, out_len, tmp, tmp_st, tmp_ptr,
                 img, i_st, data, ptr, rle_vars>>
\* if ((ret = service_connect(handle, 0x4024))) return ret;
Connect ==
  /\ pc = "connect"
  /\ ops' = Append(ops, "service_connect")
  /\ \/ ret' = NSPIRE_ERR_SUCCESS /\ conn' = "open" /\ pc' = "write"
     \/ \E e \in TransportErrors : ret' = e /\ conn' = conn /\ pc' = "done"
  /\ UNCHANGED <<oob, env_vars, nread, buffer, hdr_vars, in_len, out_len, tmp, tmp_st, tmp_ptr,
                 img, i_st, data, ptr, rle_vars>>

\* if ((ret = data_write8(handle, 0x00))) return ret;
WriteTrigger ==
  /\ pc = "write"
  /\ ops' = Append(ops, "data_write8(0x00)")
  /\ \/ ret' = NSPIRE_ERR_SUCCESS /\ pc' = "read_header"
     \/ \E e \in TransportErrors : ret' = e /\ pc' = "done"
  /\ UNCHANGED <<conn, oob, env_vars, nread, buffer, hdr_vars, in_len, out_len, tmp, tmp_st, tmp_ptr,
                 img, i_st, data, ptr, rle_vars>>

\* if ((ret = data_read(handle, buffer, sizeof(buffer), NULL))) goto end;
ReadHeader ==
  /\ pc = "read_header"
  /\ ops' = Append(ops, "data_read")
  /\ \/ ret' = NSPIRE_ERR_SUCCESS /\ buffer' = first /\ pc' = "scan"
     \/ \E e \in TransportErrors : ret' = e /\ buffer' = buffer /\ pc' = "end"
  /\ UNCHANGED <<conn, oob, env_vars, nread, hdr_vars, in_len, out_len, tmp, tmp_st, tmp_ptr,
                 img, i_st, data, ptr, rle_vars>>

ScanHeaderBug ==
  /\ pc = "scan"
  /\ IF buffer.ok
     THEN /\ ret' = NSPIRE_ERR_SUCCESS
          /\ size' = buffer.size /\ width' = buffer.width
          /\ height' = buffer.height /\ bpp' = buffer.bpp
          /\ pc' = "malloc_tmp"
     ELSE /\ ret' = ret
          /\ UNCHANGED hdr_vars
          /\ pc' = "end"
  /\ UNCHANGED <<conn, oob, env_vars, nread, buffer, in_len, out_len, tmp, tmp_st, tmp_ptr,
                 img, i_st, data, ptr, ops, rle_vars>>
\* if ((ret = data_scan("bwhhhhbb", buffer, ..., &size, ..., &width, &height, &bpp, NULL))) goto end;
ScanHeader ==
  /\ pc = "scan"
  /\ IF buffer.ok
     THEN /\ ret' = NSPIRE_ERR_SUCCESS
          /\ size' = buffer.size /\ width' = buffer.width
          /\ height' = buffer.height /\ bpp' = buffer.bpp
          /\ pc' = "malloc_tmp"
     ELSE /\ ret' = NSPIRE_ERR_INVALPKT
          /\ UNCHANGED hdr_vars
          /\ pc' = "end"
  /\ UNCHANGED <<conn, oob, env_vars, nread, buffer, in_len, out_len, tmp, tmp_st, tmp_ptr,
                 img, i_st, data, ptr, ops, rle_vars>>

\* tmp_ptr = tmp = malloc(size); if (!tmp) { ret = -NSPIRE_ERR_NOMEM; goto end; }
MallocTmp ==
  /\ pc = "malloc_tmp"
  /\ ops' = Append(ops, "malloc(size)")
  /\ \/ tmp' = Fresh(size) /\ tmp_st' = "live" /\ tmp_ptr' = 0
        /\ ret' = ret /\ pc' = "lengths"
     \/ tmp' = tmp /\ tmp_st' = "null" /\ tmp_ptr' = tmp_ptr
        /\ ret' = NSPIRE_ERR_NOMEM /\ pc' = "end"
  /\ UNCHANGED <<conn, oob, env_vars, nread, buffer, hdr_vars, in_len, out_len,
                 img, i_st, data, ptr, rle_vars>>

\* in_len = size; out_len = (width * height * bpp) / 8;
ComputeLengths ==
  /\ pc = "lengths"
  /\ in_len' = size
  /\ out_len' \in OutLen(width, height, bpp)
  /\ pc' = "malloc_i"
  /\ UNCHANGED <<conn, oob, ret, env_vars, nread, buffer, hdr_vars, tmp, tmp_st, tmp_ptr,
                 img, i_st, data, ptr, ops, rle_vars>>

\* sizeof(struct nspire_image): uint16_t width, height; uint8_t bbp; and the
\* flexible array data[], which adds nothing.
SizeofImage == 6
\* sizeof(*i) + out_len
ImageRequest(len) == LimbsAdd(LimbsOf(SizeofImage), len)
\* The number of bytes of i->data inside a block of the requested size.
DataLen(req) == IF LimbsVal(req) >= SizeofImage THEN LimbsVal(req) - SizeofImage ELSE 0

\* i = malloc(sizeof(*i) + out_len); if (!i) { ret = -NSPIRE_ERR_NOMEM; goto end; }
\* i->width = width; i->height = height; i->bpp = bpp;
\* The request is computed in size_t, modulo 2^64; the block's bytes after the
\* struct are i->data.  (A request of 2^31 bytes or more is taken to fail.)
MallocImage ==
  /\ pc = "malloc_i"
  /\ ops' = Append(ops, "malloc(i)")
  /\ \/ /\ LimbsSmall(ImageRequest(out_len))
        /\ i_st' = "live"
        /\ img' = [width |-> width, height |-> height, bpp |-> bpp]
        /\ data' = Fresh(DataLen(ImageRequest(out_len)))
        /\ ret' = ret /\ pc' = "loop"
     \/ /\ i_st' = "null" /\ img' = img /\ data' = data
        /\ ret' = NSPIRE_ERR_NOMEM /\ pc' = "end"
  /\ UNCHANGED <<conn, oob, env_vars, nread, buffer, hdr_vars, in_len, out_len, tmp, tmp_st, tmp_ptr,
                 ptr, rle_vars>>

maxsizeBug == maxdata
\* const size_t maxsize = packet_max_datasize(handle) - 1;
maxsize == maxdata - 1

CopyLenBug(m, s) == m
\* len = maxsize < size ? maxsize : size;
CopyLen(m, s) == IF m < s THEN m ELSE s

\* memcpy(tmp_ptr, buffer + 1, len): the compressed block afterwards.
ReassembleBug(t, tp, buf, len) == Memcpy(t, tp, buf, 0, len)
Reassemble(t, tp, buf, len) == Memcpy(t, tp, buf, 1, len)

\* One pass of while (size): a packet is read and its bytes after the first copied.
\* memcpy(tmp_ptr, buffer + 1, len); tmp_ptr += len; size -= len;
ReadPayloadOk ==
  /\ pc = "loop" /\ size # 0
  /\ nread < Len(wire)
  /\ ops' = Append(ops, "data_read")
  /\ ret' = NSPIRE_ERR_SUCCESS
  /\ nread' = nread + 1
  /\ buffer' = wire[nread + 1]
  /\ LET len == CopyLen(maxsize, size) IN
       /\ tmp' = Reassemble(tmp, tmp_ptr, buffer', len)
       /\ oob' = (oob \/ ~InBounds(tmp, tmp_ptr, buffer', 1, len))
       /\ tmp_ptr' = tmp_ptr + len
       /\ size' = size - len
  /\ UNCHANGED <<conn, pc, env_vars, width, height, bpp, in_len, out_len, tmp_st,
                 img, i_st, data, ptr, rle_vars>>

\* if ((ret = data_read(...))) goto error_free;  (a read can always fail; it
\* fails with a timeout once the device has nothing more to send)
ReadPayloadFailBug ==
  /\ pc = "loop" /\ size # 0
  /\ ops' = Append(ops, "data_read")
  /\ \E e \in TransportErrors : ret' = e
  /\ ptr' = "i"
  /\ pc' = "error_free"
  /\ UNCHANGED <<conn, oob, env_vars, nread, buffer, hdr_vars, in_len, out_len, tmp, tmp_st, tmp_ptr,
                 img, i_st, data, rle_vars>>
ReadPayloadFailRetry ==
  /\ pc = "loop" /\ size # 0
  /\ ops' = Append(ops, "data_read")
  /\ \E e \in TransportErrors : ret' = e
  /\ pc' = "loop"
  /\ UNCHANGED <<conn, oob, env_vars, nread, buffer, hdr_vars, in_len, out_len, tmp, tmp_st, tmp_ptr,
                 img, i_st, data, ptr, rle_vars>>
ReadPayloadFail ==
  /\ pc = "loop" /\ size # 0
  /\ ops' = Append(ops, "data_read")
  /\ \E e \in TransportErrors : ret' = e
  /\ pc' = "error_free"
  /\ UNCHANGED <<conn, oob, env_vars, nread, buffer, hdr_vars, in_len, out_len, tmp, tmp_st, tmp_ptr,
                 img, i_st, data, ptr, rle_vars>>

\* A size_t as a number.  rle_decode only compares out_size with lengths of at
\* most 129 * 63 bytes and subtracts such lengths from it, so every value from
\* SizeCap up behaves as SizeCap does, and stands for "more than any buffer".
SizeCap == 2^30
SizeVal(x) == IF LimbsSmall(x) /\ LimbsVal(x) < SizeCap THEN LimbsVal(x) ELSE SizeCap

\* size is 0: the loop ends and rle_decode(bpp, tmp, i->data, in_len, out_len) is entered.
CallDecode ==
  /\ pc = "loop" /\ size = 0
  /\ pc' = "decode"
  /\ rle_pc' = "loop"
  /\ in_pos' = 0 /\ in_size' = in_len
  /\ out_pos' = 0 /\ out_size' = SizeVal(out_len)
  /\ last' = "call"
  /\ UNCHANGED <<conn, oob, ret, env_vars, nread, buffer, hdr_vars, in_len, out_len, tmp, tmp_st,
                 tmp_ptr, img, i_st, data, ptr, ops>>

\* *ptr = i; ret = NSPIRE_ERR_SUCCESS; goto end;
StoreResultBug ==
  /\ pc = "decode" /\ rle_pc = "returned"
  /\ ptr' = "i"
  /\ ret' = NSPIRE_ERR_SUCCESS
  /\ pc' = "error_free"
  /\ UNCHANGED <<conn, oob, env_vars, nread, buffer, hdr_vars, in_len, out_len, tmp, tmp_st, tmp_ptr,
                 img, i_st, data, ops, rle_vars>>
StoreResult ==
  /\ pc = "decode" /\ rle_pc = "returned"
  /\ ptr' = "i"
  /\ ret' = NSPIRE_ERR_SUCCESS
  /\ pc' = "end"
  /\ UNCHANGED <<conn, oob, env_vars, nread, buffer, hdr_vars, in_len, out_len, tmp, tmp_st, tmp_ptr,
                 img, i_st, data, ops, rle_vars>>

\* error_free: if (i) free(i);
ErrorFree ==
  /\ pc = "error_free"
  /\ IF i_st # "null"
     THEN i_st' = FreeOf(i_st) /\ ops' = Append(ops, "free(i)")
     ELSE UNCHANGED <<i_st, ops>>
  /\ pc' = "end"
  /\ UNCHANGED <<conn, oob, ret, env_vars, nread, buffer, hdr_vars, in_len, out_len, tmp, tmp_st,
                 tmp_ptr, img, data, ptr, rle_vars>>

\* end: if (tmp) free(tmp); service_disconnect(handle); return ret;
End ==
  /\ pc = "end"
  /\ IF tmp_st # "null"
     THEN tmp_st' = FreeOf(tmp_st) /\ ops' = Append(Append(ops, "free(tmp)"), "service_disconnect")
     ELSE tmp_st' = tmp_st /\ ops' = Append(ops, "service_disconnect")
  /\ conn' = "closed"
  /\ pc' = "done"
  /\ UNCHANGED <<oob, ret, env_vars, nread, buffer, hdr_vars, in_len, out_len, tmp, tmp_ptr,
                 img, i_st, data, ptr, rle_vars>>

\* ---------------------------------------------------------------- inputs
SeqsUpTo(S, n) == UNION {[1..k -> S] : k \in 0..n}

\* Leading byte of a payload packet, and the filler of a last, short packet.
StatusBytes == {4}
PadBytes == {7}

\* Payload bytes the device sends in the general runs: a repeat-run control
\* byte (0) and a literal-run control byte (0xFE = -2).
WireBytes == {0, 254}

\* The device's payload stream cut into packets of m bytes: a status byte and
\* m - 1 data bytes each, the last one padded.
RECURSIVE Packetize(_, _)
Packetize(stream, m) ==
  IF stream = <<>> THEN <<>>
  ELSE LET n == Min(m - 1, Len(stream))
           st == CHOOSE b \in StatusBytes : TRUE
           pad == CHOOSE b \in PadBytes : TRUE
           pkt == [k \in 1..m |-> IF k = 1 THEN st
                                  ELSE IF k - 1 <= n THEN stream[k - 1] ELSE pad]
       IN <<pkt>> \o Packetize(SubSeq(stream, n + 1, Len(stream)), m)

\* <<width, height, bpp>> of the first packets explored in the general runs.
HeaderDims == {<<0, 2, 8>>, <<2, 2, 4>>, <<2, 2, 8>>, <<1, 2, 16>>}
Header(s, w, h, b) == [ok |-> TRUE, size |-> s, width |-> w, height |-> h, bpp |-> b]
\* A first packet too short for the "bwhhhhbb" layout.
ShortPacket == [ok |-> FALSE, size |-> 0, width |-> 0, height |-> 0, bpp |-> 0]

\* The locals of nspire_screenshot on entry (none is read before it is assigned).
EntryLocals ==
  /\ ret = "unset" /\ nread = 0 /\ buffer = <<>>
  /\ size = 0 /\ width = 0 /\ height = 0 /\ bpp = 0
  /\ in_len = 0 /\ out_len = LimbsOf(0)
  /\ tmp = <<>> /\ tmp_st = "null" /\ tmp_ptr = 0
  /\ img = [width |-> 0, height |-> 0, bpp |-> 0] /\ i_st = "uninit" /\ data = <<>>
  /\ ptr = NoImage /\ ops = <<>> /\ conn = "none" /\ oob = FALSE
  /\ rle_pc = "off" /\ in_pos = 0 /\ in_size = 0 /\ out_pos = 0 /\ out_size = 0
  /\ last = "none"

\* A call of nspire_screenshot: any packet size, any first packet, any payload stream.
Init ==
  /\ pc = "connect"
  /\ maxdata \in 2..MaxData
  /\ first \in {Header(s, d[1], d[2], d[3]) : s \in 0..MaxSize, d \in HeaderDims}
               \cup {ShortPacket}
  /\ \E stream \in SeqsUpTo(WireBytes, MaxStream) : wire = Packetize(stream, maxdata)
  /\ raw = <<>>
  /\ EntryLocals

Next ==
  \/ Connect \/ WriteTrigger \/ ReadHeader \/ ScanHeader \/ MallocTmp \/ ComputeLengths
  \/ MallocImage \/ ReadPayloadOk \/ ReadPayloadFail \/ CallDecode
  \/ RleLiteral \/ RleRepeat \/ RleTruncated \/ RleExit
  \/ StoreResult \/ ErrorFree \/ End

Spec == Init /\ [][Next]_vars

\* ---------------------------------------------------------------- a header whose pixel count overflows
\* width * height * bpp = 8824 * 2089 * 233 = 2^32 - 8: the int product is -8,
\* out_len is (size_t)-1 and sizeof(*i) + out_len wraps to sizeof(*i) - 1.
\* 20853 * 51491 * 4 = 2^32 - 4: the int product is -4, and out_len is 0 in a
\* build that divides and (size_t)-1 in a build that shifts.
\* The last header is an ordinary 2 x 2 image of 8 bits per pixel.
OverflowDims == {<<8824, 2089, 233>>, <<20853, 51491, 4>>, <<2, 2, 8>>}

OverflowInit ==
  /\ pc = "connect"
  /\ maxdata \in 2..MaxData
  /\ first \in {Header(s, d[1], d[2], d[3]) : s \in 0..MaxSize, d \in OverflowDims}
  /\ \E stream \in SeqsUpTo(WireBytes, MaxStream) : wire = Packetize(stream, maxdata)
  /\ raw = <<>>
  /\ EntryLocals

SpecOverflow == OverflowInit /\ [][Next]_vars

\* ---------------------------------------------------------------- rle_decode alone
\* Control and data bytes tried: repeat counts 1 and 2, the literal count 3
\* (0xFE = -2) and the extreme literal count 129 (0x80 = -128).
RleBytes == {0, 1, 128, 254}
RleBpps == {1, 4, 8, 16}

\* The state of the model with only rle_decode running on given arguments.
DecoderOnly ==
  /\ pc = "idle" /\ ret = "unset" /\ maxdata = 2 /\ first = ShortPacket /\ wire = <<>>
  /\ nread = 0 /\ buffer = <<>>
  /\ size = 0 /\ width = 0 /\ height = 0
  /\ in_len = Len(tmp) /\ out_len = LimbsOf(Len(data))
  /\ tmp_st = "live" /\ tmp_ptr = Len(tmp)
  /\ img = [width |-> 0, height |-> 0, bpp |-> bpp] /\ i_st = "live"
  /\ ptr = NoImage /\ ops = <<>> /\ conn = "open" /\ oob = FALSE
  /\ rle_pc = "loop" /\ in_pos = 0 /\ in_size = Len(tmp)
  /\ out_pos = 0 /\ out_size = Len(data)
  /\ last = "call"

\* rle_decode(bpp, in, out, in_size, out_size) on any input of up to MaxIn bytes.
RleInit ==
  /\ bpp \in RleBpps
  /\ tmp \in SeqsUpTo(RleBytes, MaxIn)
  /\ \E n \in 0..MaxOut : data = Fresh(n)
  /\ raw = <<>>
  /\ DecoderOnly

RleNext == RleLiteral \/ RleRepeat \/ RleTruncated \/ RleExit

SpecRle == RleInit /\ [][RleNext]_vars

\* rle_decode alone, run to completion: the loop keeps executing until the
\* function returns (a C function that can take a step does take it).
SpecRleRun == RleInit /\ [][RleNext]_vars /\ WF_vars(RleNext)

\* ---------------------------------------------------------------- the length computation alone
\* Header fields at and between the ends of their types' ranges.
WideDims == {0, 1, 320, 32769, 65535}
WideBpps == {0, 1, 4, 8, 16, 255}

\* nspire_screenshot just before line 91, after any header has been parsed
\* and tmp allocated.
LenInit ==
  /\ pc = "lengths"
  /\ ret = NSPIRE_ERR_SUCCESS /\ maxdata = 2 /\ wire = <<>> /\ raw = <<>>
  /\ width \in WideDims /\ height \in WideDims /\ bpp \in WideBpps /\ size = 0
  /\ first = Header(size, width, height, bpp)
  /\ nread = 0 /\ buffer = first
  /\ in_len = 0 /\ out_len = LimbsOf(0)
  /\ tmp = <<>> /\ tmp_st = "live" /\ tmp_ptr = 0
  /\ img = [width |-> 0, height |-> 0, bpp |-> 0] /\ i_st = "uninit" /\ data = <<>>
  /\ ptr = NoImage
  /\ ops = <<"service_connect", "data_write8(0x00)", "data_read", "malloc(size)">>
  /\ conn = "open" /\ oob = FALSE
  /\ rle_pc = "off" /\ in_pos = 0 /\ in_size = 0 /\ out_pos = 0 /\ out_size = 0
  /\ last = "none"

LenNext == ComputeLengths

SpecLen == LenInit /\ [][LenNext]_vars

\* ---------------------------------------------------------------- the round trip
\* A literal-run encoder: records of the control byte k < 0 followed by the
\* next (-k + 1) * unit raw bytes, the last record holding what is left.  With
\* unit = 0 a record carries no byte at all, and one empty record is emitted.
RECURSIVE LiteralEncode(_, _, _)
LiteralEncode(r, unit, k) ==
  IF r = <<>> THEN <<>>
  ELSE IF unit = 0 THEN <<k % 256>>
  ELSE LET n == Min((-k + 1) * unit, Len(r))
       IN <<k % 256>> \o SubSeq(r, 1, n) \o LiteralEncode(SubSeq(r, n + 1, Len(r)), unit, k)

RawBytes == {0, 17, 254}
LiteralCodes == {-1, -2, -128}

\* rle_decode on the encoding of a raw buffer, into an output of the raw buffer's length.
RoundTripInit ==
  /\ bpp \in RleBpps
  /\ raw \in SeqsUpTo(RawBytes, MaxRaw)
  /\ \E k \in LiteralCodes : tmp = LiteralEncode(raw, rle_size(bpp), k)
  /\ data = Fresh(Len(raw))
  /\ DecoderOnly

RoundTripNext == RleLiteral \/ RleExit

SpecRoundTrip == RoundTripInit /\ [][RoundTripNext]_vars

\* ---------------------------------------------------------------- the end-to-end scenario
\* 0x00 0xAA 0xBB 0xFE 0x11 0x22
ScenarioStream == <<0, 170, 187, 254, 17, 34>>
ScenarioSizes == {Len(ScenarioStream), 10}
TrailBytes == {0, 51}

\* A call whose first packet declares width 4, height 2, bpp 8 and a size of
\* 6 or 10, and whose payload is the scenario's stream and what the device
\* sends after it.
ScenarioInit ==
  /\ pc = "connect"
  /\ maxdata \in 2..MaxData
  /\ first \in {Header(s, 4, 2, 8) : s \in ScenarioSizes}
  /\ \E trail \in SeqsUpTo(TrailBytes, MaxTrail) :
        wire = Packetize(ScenarioStream \o trail, maxdata)
  /\ raw = <<>>
  /\ EntryLocals

ScenarioNext ==
  \/ Connect \/ WriteTrigger \/ ReadHeader \/ ScanHeader \/ MallocTmp \/ ComputeLengths
  \/ MallocImage \/ ReadPayloadOk \/ ReadPayloadFail \/ CallDecode
  \/ RleLiteral \/ RleRepeat \/ RleExit
  \/ StoreResult \/ ErrorFree \/ End

SpecScenario == ScenarioInit /\ [][ScenarioNext]_vars

\* ---------------------------------------------------------------- properties
Count(s, x) == Cardinality({k \in DOMAIN s : s[k] = x})

\* The concatenation of the data bytes (all but the first) of packets 1..n of w.
RECURSIVE PacketData(_, _)
PacketData(w, n) == IF n = 0 THEN <<>> ELSE PacketData(w, n - 1) \o Tail(w[n])

\* C1: on every exit path on which service_connect succeeded, service_disconnect
\* has been called when nspire_screenshot returns.
C1_DisconnectOnEveryExit ==
  (pc = "done" /\ conn # "none") =>
     (conn = "closed" /\ Count(ops, "service_disconnect") >= 1)

\* C2: *ptr holds an image if and only if nspire_screenshot returns
\* NSPIRE_ERR_SUCCESS; on every other return *ptr is what the caller left there.
C2_ImageIffSuccess ==
  /\ (pc = "done" => ((ptr # NoImage) <=> (ret = NSPIRE_ERR_SUCCESS)))
  /\ (pc = "done" /\ ret = NSPIRE_ERR_SUCCESS => ptr = "i" /\ i_st = "live")
C2_Witness ==
  pc = "done" /\ ret \in TransportErrors /\ i_st = "freed" /\ nread >= 1 /\ ptr = NoImage

\* C3: when the reassembly loop has finished, the compressed block holds exactly
\* declared_size bytes: the data bytes of the packets read, in read order, cut
\* to declared_size.
C3_Reassembly ==
  pc = "decode" =>
     /\ Len(tmp) = first.size
     /\ Len(PacketData(wire, nread)) >= first.size
     /\ tmp = SubSeq(PacketData(wire, nread), 1, first.size)
C3_Witness ==
  pc = "decode" /\ nread = 2 /\ first.size = 3 /\ maxdata = 3

\* C4: the out_len computed for the image equals width * height * bpp / 8 exactly.
C4_OutLenExact ==
  pc = "malloc_i" =>
     out_len = LimbsDiv8(LimbsMul(LimbsMul(LimbsOf(width), height), bpp))

\* The claims' own reading of a decoder state: the unit, the control byte the
\* loop is about to read, and the input left after it.
Unit == (bpp * 2) \div 8
Code == LET b == tmp[in_pos + 1] IN IF b > 127 THEN b - 256 ELSE b
Looping == rle_pc = "loop" /\ in_size > 1 /\ out_size > 0
Min3(a, b, c) == Min(a, Min(b, c))

\* C5 as stated: for bpp in {1, 4, 8, 16}, decoding the literal-run encoding of a
\* raw buffer into an output of its length gives the raw buffer back.
C5_RoundTripAllBpp ==
  rle_pc = "returned" => data = raw

\* C5 as amended: the round trip holds for bpp in {4, 8, 16}, where the decoder
\* reads every record as a literal run; for bpp = 1 (unit 0) nothing is written.
C5_RoundTrip ==
  /\ (bpp \in {4, 8, 16} /\ Looping => Code < 0)
  /\ (bpp \in {4, 8, 16} /\ rle_pc = "returned" => data = raw)
  /\ (bpp = 1 => data = Fresh(Len(raw)))
C5_Witness ==
  rle_pc = "returned" /\ bpp = 4 /\ Len(raw) = 5 /\ tmp[1] = 255 /\ in_pos = Len(tmp)

\* C6: a repeat run (control byte k >= 0 with at least unit bytes after it) writes
\* min(k + 1, floor(out_size / unit)) copies of the unit bytes at the input
\* position and advances the input by the control byte and exactly unit bytes
\* (with unit = 0 the copies are empty and nothing is written).
C6_RepeatRun ==
  [][(Looping /\ Code >= 0 /\ in_size - 1 >= Unit) =>
       LET c == IF Unit = 0 THEN 0 ELSE Min(Code + 1, out_size \div Unit) IN
         /\ out_pos' = out_pos + c * Unit
         /\ out_size' = out_size - c * Unit
         /\ \A j \in 1..Len(data) :
              data'[j] = IF j > out_pos /\ j <= out_pos + c * Unit
                         THEN tmp[in_pos + 2 + ((j - out_pos - 1) % Unit)]
                         ELSE data[j]
         /\ in_pos' = in_pos + 1 + Unit
         /\ in_size' = in_size - 1 - Unit
         /\ rle_pc' = "loop"]_vars
\* a repeat run of 2 copies cut to 1 by the output space
C6_Witness ==
  /\ last = "repeat" /\ bpp = 8 /\ in_pos = 3 /\ tmp[1] = 1
  /\ out_pos = 2 /\ out_size = 1

\* C7: a literal run (control byte k < 0) copies n = min((-k + 1) * unit, out_size,
\* input left after the control byte) bytes verbatim and moves both cursors and
\* both counters by n.
C7_LiteralRun ==
  [][(Looping /\ Code < 0) =>
       LET n == Min3((-Code + 1) * Unit, out_size, in_size - 1) IN
         /\ out_pos' = out_pos + n
         /\ out_size' = out_size - n
         /\ \A j \in 1..Len(data) :
              data'[j] = IF j > out_pos /\ j <= out_pos + n
                         THEN tmp[in_pos + 1 + (j - out_pos)]
                         ELSE data[j]
         /\ in_pos' = in_pos + 1 + n
         /\ in_size' = in_size - 1 - n
         /\ rle_pc' = "loop"]_vars
\* a literal run of 3 units cut to the 3 bytes of input left, with output space to spare
C7_Witness ==
  /\ last = "literal" /\ bpp = 8 /\ tmp[1] = 254 /\ in_pos = 4 /\ in_size = 0
  /\ out_pos = 3 /\ out_size > 0

\* C8: a control byte k >= 0 with fewer than unit bytes after it ends the
\* decoding at once: nothing is written, the output and its cursor stay as they
\* are, and no error is signalled.
C8_TruncatedStops ==
  [][(Looping /\ Code >= 0 /\ in_size - 1 < Unit) =>
       /\ rle_pc' = "returned"
       /\ data' = data /\ out_pos' = out_pos /\ out_size' = out_size
       /\ ret' = ret /\ oob' = oob]_vars
\* a stream cut inside a repeat run, after a first run has written 2 bytes
C8_Witness ==
  last = "truncated" /\ rle_pc = "returned" /\ out_pos = 2 /\ out_size > 0 /\ in_size = 1

\* C9 as stated: with declared size 10 the decoded buffer is AA BB 11 22 followed
\* by 4 bytes the decoder never writes.
C9_ScenarioAsStated ==
  (rle_pc = "returned" /\ first.size = 10) =>
     data = <<170, 187, 17, 34>> \o Fresh(4)

\* C9 as amended: the 4 last bytes stay unwritten when the declared size is 6,
\* the length of the stream; with the declared size 10 the literal run is cut to
\* the 6 bytes of output space and copies the 4 compressed bytes after the stream.
C9_Scenario ==
  /\ (rle_pc = "loop" /\ Looping /\ Code >= 0 => in_size - 1 >= Unit)
  /\ (rle_pc = "returned" /\ first.size = 6 =>
        data = <<170, 187, 17, 34>> \o Fresh(4))
  /\ (rle_pc = "returned" /\ first.size = 10 =>
        data = <<170, 187, 17, 34>> \o SubSeq(tmp, 7, 10))
C9_Witness ==
  pc = "done" /\ ret = NSPIRE_ERR_SUCCESS /\ first.size = 6 /\ ptr = "i" /\ last = "exit"

\* C10: when nspire_screenshot returns, the compressed block has been freed
\* exactly once if it was allocated, the image has been freed exactly once if
\* reassembly failed and not at all on success, and no free was given a
\* pointer that was not live.
C10_Releases ==
  /\ tmp_st # "bad free" /\ i_st # "bad free"
  /\ Count(ops, "free(tmp)") = (IF tmp_st = "freed" THEN 1 ELSE 0)
  /\ Count(ops, "free(i)") = (IF i_st = "freed" THEN 1 ELSE 0)
  /\ pc = "done" =>
       /\ tmp_st \in {"null", "freed"}
       /\ (Count(ops, "malloc(size)") = 1 /\ tmp_st = "null" => ret = NSPIRE_ERR_NOMEM)
       /\ (ret = NSPIRE_ERR_SUCCESS => i_st = "live" /\ tmp_st = "freed")
       /\ (i_st = "freed" <=> (ret \in TransportErrors /\ Count(ops, "malloc(i)") = 1))
C10_Witness ==
  pc = "done" /\ i_st = "freed" /\ tmp_st = "freed" /\ nread = 1
\* The transport calls of a log, in order, and the calls a run may make: the
\* connect, the write of the byte 0, the header read, then payload reads.
TransportCalls == {"service_connect", "data_write8(0x00)", "data_read"}
Transport(s) == SelectSeq(s, LAMBDA x : x \in TransportCalls)
StepOrder(s) ==
  \A k \in DOMAIN s :
     s[k] = IF k = 1 THEN "service_connect"
            ELSE IF k = 2 THEN "data_write8(0x00)" ELSE "data_read"
CeilDiv(a, b) == (a + b - 1) \div b

\* C11: the transport calls are made in the order connect, write of the byte 0,
\* header read, payload reads, each step once (at most one read per packet
\* needed); once a transport call has failed, no step makes another transport
\* call or runs the decoder: only free and service_disconnect follow.
C11_NoRetryFixedOrder ==
  [][/\ StepOrder(Transport(ops'))
     /\ Count(ops', "data_read") <= 1 + CeilDiv(first.size, maxdata - 1)
     /\ (ret \in TransportErrors =>
           /\ Transport(ops') = Transport(ops)
           /\ rle_pc' = "off" /\ rle_pc = "off" /\ data' = data
           /\ ret' = ret
           /\ pc' \in {"end", "done"})]_vars
\* a payload read failed after one packet had been read
C11_Witness ==
  /\ pc = "done" /\ ret \in TransportErrors /\ nread = 1
  /\ Transport(ops) = <<"service_connect", "data_write8(0x00)", "data_read",
                        "data_read", "data_read">>
\* C12: each pass of the reassembly loop reads one packet and copies exactly
\* min(remaining size, max_packet_payload - 1) bytes, taken from the packet
\* buffer after its first byte and placed inside the block of the declared
\* size; the loop ends after exactly ceil(size / (max_packet_payload - 1))
\* packets (none when the size is 0).
C12_ReassemblyCounts ==
  [][/\ (nread' = nread + 1 =>
           LET len == Min(size, maxdata - 1) IN
             /\ Count(ops', "data_read") = Count(ops, "data_read") + 1
             /\ tmp_ptr' = tmp_ptr + len /\ size' = size - len
             /\ Len(buffer') = maxdata /\ 1 + len <= maxdata
             /\ Len(tmp) = first.size /\ tmp_ptr + len <= first.size
             /\ tmp' = [k \in 1..Len(tmp) |->
                          IF tmp_ptr < k /\ k <= tmp_ptr + len
                          THEN buffer'[1 + k - tmp_ptr] ELSE tmp[k]]
             /\ ~oob')
     /\ (pc = "loop" /\ pc' = "decode" =>
           /\ nread = CeilDiv(first.size, maxdata - 1)
           /\ tmp_ptr = first.size)]_vars
\* three bytes arrive in packets of two data bytes: a full packet and a short one
C12_Witness ==
  /\ pc = "decode" /\ first.size = 3 /\ maxdata = 3 /\ nread = 2 /\ tmp_ptr = 3
\* C13: rle_decode returns on every input, and when it has returned either
\* fewer than 2 input bytes remain, or the output is full, or the last control
\* byte was a repeat run with fewer than rle_size input bytes left after it.
C13_DecodeTerminates ==
  /\ <>(rle_pc = "returned")
  /\ [](rle_pc = "returned" =>
          \/ in_size < 2
          \/ out_size = 0
          \/ /\ last = "truncated" /\ in_pos >= 1 /\ Int8(tmp[in_pos]) >= 0
             /\ in_size < Unit)
  /\ [][rle_pc = "loop" => rle_pc' = "returned" \/ (in_size' < in_size /\ in_size' >= 0)]_vars
\* a return with input and output both left: the truncated repeat run
C13_Witness ==
  /\ rle_pc = "returned" /\ last = "truncated" /\ in_size >= 2 /\ out_size > 0
\* The value a step of nspire_screenshot that fails must leave in ret.
FailureOf(p) ==
  IF p \in {"connect", "write", "read_header", "loop"} THEN TransportErrors
  ELSE IF p = "scan" THEN {NSPIRE_ERR_INVALPKT}
  ELSE IF p \in {"malloc_tmp", "malloc_i"} THEN {NSPIRE_ERR_NOMEM}
  ELSE {}
Failed(p, q) ==
  \/ p \in {"connect", "write"} /\ q = "done"
  \/ p \in {"read_header", "scan", "malloc_tmp", "malloc_i"} /\ q = "end"
  \/ p = "loop" /\ q = "error_free"

\* C14: the call returns NSPIRE_ERR_SUCCESS exactly when the connect, the
\* write, the header read, the parse, both allocations and every reassembly
\* read succeeded; otherwise it returns the error of the first step that failed
\* (the transport's or parser's code, or -NSPIRE_ERR_NOMEM), which the cleanup
\* never alters; a truncated RLE stream does not change the return value.
C14_ReturnValue ==
  [][/\ (Failed(pc, pc') => ret' \in FailureOf(pc))
     /\ (pc \in {"end", "error_free"} => ret' = ret)
     /\ (ret \notin {"unset", NSPIRE_ERR_SUCCESS} => ret' = ret)
     /\ (rle_pc' # "off" => ret' = NSPIRE_ERR_SUCCESS)
     /\ (pc' = "done" =>
           (ret' = NSPIRE_ERR_SUCCESS <=>
              /\ first.ok /\ rle_pc' = "returned"
              /\ Count(ops', "malloc(size)") = 1 /\ Count(ops', "malloc(i)") = 1
              /\ tmp_st' # "null" /\ i_st' = "live"
              /\ nread' = CeilDiv(first.size, maxdata - 1)
              /\ Transport(ops') = <<"service_connect", "data_write8(0x00)", "data_read">>
                                   \o [k \in 1..nread' |-> "data_read"]))]_vars
\* a call whose stream ended in a truncated repeat run, returning success
C14_Witness ==
  /\ pc = "done" /\ last = "truncated" /\ ret = NSPIRE_ERR_SUCCESS
\* C15: in rle_decode, at every step, the bytes consumed plus the remaining
\* in_size equal the initial in_size, the bytes written plus the remaining
\* out_size equal the initial out_size, neither counter goes below 0, and no
\* memcpy has read outside the input or written outside the output, whatever
\* bpp and the input bytes are.
C15_DecodeBounds ==
  /\ in_pos + in_size = Len(tmp) /\ in_pos >= 0 /\ in_size >= 0
  /\ out_pos + out_size = Len(data) /\ out_pos >= 0 /\ out_size >= 0
  /\ ~oob
  /\ \A k \in 1..Len(data) : k > out_pos => data[k] = Unwritten
\* a literal run of 129 units clamped by the input: nothing is left to read
\* while the output still has room
C15_Witness ==
  /\ last = "literal" /\ bpp = 8 /\ Int8(tmp[1]) = -128 /\ Len(tmp) = 3
  /\ in_size = 0 /\ out_pos = 2 /\ out_size > 0
\* service_connect has been called and has failed: ret holds its error and the
\* write that follows a successful connect has not been attempted.
ConnectFailed ==
  /\ ops # <<>> /\ ops[1] = "service_connect"
  /\ ret \in TransportErrors /\ Count(ops, "data_write8(0x00)") = 0

\* C16: in one call service_disconnect is called at most once, and never when
\* service_connect failed: the function has then returned the connect error,
\* having made no other transport call and no allocation.
C16_DisconnectAtMostOnce ==
  /\ Count(ops, "service_disconnect") <= 1
  /\ (ConnectFailed =>
        /\ pc = "done" /\ ops = <<"service_connect">>
        /\ conn = "none" /\ tmp_st = "null" /\ i_st = "uninit" /\ ptr = NoImage)
  /\ (conn = "closed" => pc = "done" /\ ops[Len(ops)] = "service_disconnect")
\* a call whose connect failed
C16_Witness ==
  /\ ConnectFailed /\ pc = "done" /\ Count(ops, "service_disconnect") = 0
\* C17: with max_packet_payload >= 2 and reads that succeed, the reassembly
\* loop ends after at most as many reads as the declared size: each pass
\* lowers the remaining size by at least 1 and never below 0, and the loop is
\* left for the decoder with the remaining size exactly 0.
C17_ReassemblyTerminates ==
  [][/\ (pc' \in {"loop", "decode"} =>
           /\ size' >= 0 /\ nread' + size' <= first.size
           /\ nread' <= first.size)
     /\ (nread' = nread + 1 => maxdata >= 2 /\ size' < size /\ size' >= 0)
     /\ (pc = "loop" /\ size # 0 /\ nread < Len(wire) => ENABLED ReadPayloadOk)
     /\ (pc = "loop" /\ pc' = "decode" => size = 0 /\ size' = 0)]_vars
\* single-byte packets: as many reads as the declared size
C17_Witness ==
  /\ pc = "decode" /\ maxdata = 2 /\ first.size = 4 /\ nread = 4 /\ size = 0
\* C18: rle_decode is entered at most once in a call, only when the remaining
\* size has reached 0 after the last packet, with in_size the size declared in
\* the header and out_size the length of the pixel buffer that was allocated;
\* the Image holds the header's width, height and bpp unchanged.
C18_DecodeAfterReassembly ==
  [][/\ (rle_pc = "off" /\ rle_pc' # "off" =>
           /\ size = 0 /\ nread = CeilDiv(first.size, maxdata - 1)
           /\ in_size' = first.size
           /\ out_size' = Len(data)
           /\ img = [width |-> first.width, height |-> first.height, bpp |-> first.bpp])
     /\ (rle_pc = "returned" => rle_pc' = "returned")]_vars
====
